---- MODULE Spec2Model ----
(***************************************************************************)
(* Model of process_caveman.py: remove_background_hd (load, classify and   *)
(* composite, crop to content, compute the target size, resize, sharpen,   *)
(* save) and the main() wrapper around it.                                 *)
(*                                                                         *)
(* Arithmetic.  The source computes luminance, alpha_factor and the aspect *)
(* ratio in floating point.  The model computes the same quantities as     *)
(* exact rationals kept as scaled integers: luminance times 1000, 9 times  *)
(* the population variance of the channels, alpha_factor as a numerator    *)
(* over gradient_range * 1000, the aspect ratio as a pair.  The conversion *)
(* to uint8 (astype) and int() truncate toward zero, as in the source.     *)
(*                                                                         *)
(* Images are records [size |-> <<w, h>>, px |-> f] where f maps <<y, x>>  *)
(* (row, column, from 0) to <<r, g, b, a>>.  The pixel values produced by  *)
(* the LANCZOS resize and the SHARPEN filter are not modelled: after the   *)
(* resize an image keeps its size only (px = <<>>).                        *)
(***************************************************************************)
EXTENDS Integers, FiniteSets, Sequences, TLC

VARIABLES pc, exc, exit_code, existed, file,
          img, result, pixels_modified, bbox, output_img,
          original_width, original_height, aspect_ratio, target_width

vars == <<pc, exc, exit_code, existed, file,
          img, result, pixels_modified, bbox, output_img,
          original_width, original_height, aspect_ratio, target_width>>

(* ------------------------------ bounds --------------------------------- *)
\* largest source image of the pipeline specification
MaxW == 3
MaxH == 2
\* the single-pixel specification draws channels from (255 - ChanSpan)..255
ChanSpan == 75
\* largest cropped buffer of the resampler specification
MaxCropW == 16
MaxCropH == 170

(* ----------------------- constants of the source ----------------------- *)
white_threshold == 235
gradient_range == 40
variance_cutoff == 15
target_height == 80

None == "None"
\* getbbox() returning None; like None, the empty tuple is false in "if bbox:"
NoBox == <<>>
NoImage == [size |-> <<0, 0>>, px |-> <<>>]

(* ------------------------------ helpers -------------------------------- *)
Min(S) == CHOOSE m \in S : \A k \in S : m <= k
Max(S) == CHOOSE m \in S : \A k \in S : m >= k

Coords(w, h) == (0..(h - 1)) \X (0..(w - 1))

\* np.clip(v, lo, hi)
Clip(v, lo, hi) == IF v < lo THEN lo ELSE IF v > hi THEN hi ELSE v

(* ------------------------------ classifier ----------------------------- *)
\* brightness = 0.299 r + 0.587 g + 0.114 b, times 1000
Brightness1000(r, g, b) == 299 * r + 587 * g + 114 * b

\* 9 * (population variance of {r, g, b}); np.std is its square root / 3
Variance9(r, g, b) == 3 * (r * r + g * g + b * b) - (r + g + b) * (r + g + b)

\* color_variance < 15, compared on the squares: 9 * var < 9 * 15^2
LowVariance(r, g, b) == Variance9(r, g, b) < 9 * variance_cutoff * variance_cutoff

\* brightness >= white_threshold - gradient_range
Bright(r, g, b) == Brightness1000(r, g, b) >= 1000 * (white_threshold - gradient_range)

\* the loop body without its test of color_variance
Eligible_brightOnly(r, g, b) == Bright(r, g, b)

\* the two nested ifs of the loop body
Eligible(r, g, b) == Bright(r, g, b) /\ LowVariance(r, g, b)

\* denominator of alpha_factor
AlphaDen == 1000 * gradient_range

\* alpha_factor * AlphaDen: the clamped ramp for an eligible pixel; a pixel
\* that is not eligible keeps full opacity, i.e. factor 0
AlphaFactorNum(r, g, b) ==
    IF Eligible(r, g, b)
    THEN Clip(Brightness1000(r, g, b) - 1000 * (white_threshold - gradient_range),
              0, AlphaDen)
    ELSE 0

\* the alpha with the factor inverted: 255 * alpha_factor
Alpha8_inverted(r, g, b) ==
    Clip((255 * AlphaFactorNum(r, g, b)) \div AlphaDen, 0, 255)

\* result[y, x, 3] after np.clip(result, 0, 255).astype(np.uint8):
\* 255 * (1.0 - alpha_factor) truncated toward zero
Alpha8(r, g, b) ==
    Clip((255 * (AlphaDen - AlphaFactorNum(r, g, b))) \div AlphaDen, 0, 255)

\* the composite with the new alpha scaled by the alpha of the source
CompositePixel_sourceAlpha(p) ==
    <<p[1], p[2], p[3], (Alpha8(p[1], p[2], p[3]) * p[4]) \div 255>>

\* one pixel of the composited buffer: RGB copied from data, alpha from the
\* classifier; data[y, x, 3] is never read
CompositePixel(p) == <<p[1], p[2], p[3], Alpha8(p[1], p[2], p[3])>>

(* -------------------------------- crop --------------------------------- *)
\* coordinates of the pixels with alpha > 0
Content(im) == {c \in DOMAIN im.px : im.px[c][4] > 0}

\* a bounding box with inclusive right and lower edges
GetBBox_inclusive(im) ==
    IF Content(im) = {} THEN NoBox
    ELSE LET xs == {c[2] : c \in Content(im)}
             ys == {c[1] : c \in Content(im)}
         IN  <<Min(xs), Min(ys), Max(xs), Max(ys)>>

\* a bounding box that is the empty box (0, 0, 0, 0), not None, when no pixel
\* has alpha > 0
GetBBox_zeroBox(im) ==
    IF Content(im) = {} THEN <<0, 0, 0, 0>>
    ELSE LET xs == {c[2] : c \in Content(im)}
             ys == {c[1] : c \in Content(im)}
         IN  <<Min(xs), Min(ys), Max(xs) + 1, Max(ys) + 1>>

\* Image.getbbox() of an RGBA image: (left, upper, right, lower) of the
\* region of nonzero alpha, right and lower exclusive; None when empty
GetBBox(im) ==
    IF Content(im) = {} THEN NoBox
    ELSE LET xs == {c[2] : c \in Content(im)}
             ys == {c[1] : c \in Content(im)}
         IN  <<Min(xs), Min(ys), Max(xs) + 1, Max(ys) + 1>>

\* Image.crop(box)
Crop(im, box) ==
    LET w == box[3] - box[1]
        h == box[4] - box[2]
    IN  [size |-> <<w, h>>,
         px   |-> [c \in Coords(w, h) |-> im.px[<<c[1] + box[2], c[2] + box[1]>>]]]

(* ----------------------------- target size ----------------------------- *)
\* round half to even of num / den, for num >= 0 and den > 0
RoundHalfEven(num, den) ==
    LET q == num \div den
        r == num % den
    IN  IF 2 * r < den THEN q
        ELSE IF 2 * r > den THEN q + 1
        ELSE IF q % 2 = 0 THEN q ELSE q + 1

\* the ratio inverted: height / width
AspectRatio_inverted(w, h) == <<h, w>>

\* aspect_ratio = original_width / original_height, as the pair <<num, den>>
AspectRatio(w, h) == <<w, h>>

\* round(k * ratio) in place of int(k * ratio)
IntOfProduct_rounded(k, ratio) == RoundHalfEven(k * ratio[1], ratio[2])

\* int(k * ratio) for a ratio num/den >= 0: truncation toward zero
IntOfProduct(k, ratio) == (k * ratio[1]) \div ratio[2]

(* ------------------------------- inputs -------------------------------- *)
\* decoded pixels of the input files: white, and a mid gray inside the
\* transition band with a half transparent source alpha
Palette == {<<255, 255, 255, 255>>, <<219, 219, 219, 128>>}

Modes == {"RGB", "RGBA"}

\* img.convert('RGBA') of an image without alpha gives alpha 255
ConvertRGBA(mode, f) ==
    IF mode = "RGBA" THEN f
    ELSE [c \in DOMAIN f |-> <<f[c][1], f[c][2], f[c][3], 255>>]

DarkChannels == {0, 30, 100}
Channels == DarkChannels \cup ((255 - ChanSpan)..255)

(* ------------------------------- Init ---------------------------------- *)
Idle ==
    /\ exc = None
    /\ exit_code = -1
    /\ result = NoImage
    /\ pixels_modified = 0
    /\ bbox = NoBox
    /\ original_width = 0
    /\ original_height = 0
    /\ aspect_ratio = <<0, 1>>
    /\ target_width = 0

\* main() is about to call remove_background_hd; the output path holds an
\* older file or nothing
Init ==
    /\ pc = "open"
    /\ existed \in BOOLEAN
    /\ file = IF existed THEN "old" ELSE "absent"
    /\ img = NoImage
    /\ output_img = NoImage
    /\ Idle

(* ------------------------------ actions -------------------------------- *)
\* lines 16-24: Image.open, convert to RGBA, np.array, img.size
Load ==
    /\ pc = "open"
    /\ \/ /\ \E e \in {"FileNotFoundError", "UnidentifiedImageError"} : exc' = e
          /\ pc' = "raised"
          /\ img' = img
       \/ /\ \E w \in 1..MaxW, h \in 1..MaxH, mode \in Modes :
               \E f \in [Coords(w, h) -> Palette] :
                  img' = [size |-> <<w, h>>, px |-> ConvertRGBA(mode, f)]
          /\ pc' = "composite"
          /\ exc' = exc
    /\ UNCHANGED <<exit_code, existed, file, result, pixels_modified, bbox,
                   output_img, original_width, original_height, aspect_ratio,
                   target_width>>

\* lines 28-66: the classify-and-composite loop, the conversion to uint8 and
\* Image.fromarray
Composite ==
    /\ pc = "composite"
    /\ result' = [size |-> img.size,
                  px   |-> [c \in DOMAIN img.px |-> CompositePixel(img.px[c])]]
    /\ pixels_modified' =
          Cardinality({c \in DOMAIN img.px :
                          Eligible(img.px[c][1], img.px[c][2], img.px[c][3])})
    /\ output_img' = result'
    /\ pc' = "crop"
    /\ UNCHANGED <<exc, exit_code, existed, file, img, bbox, original_width,
                   original_height, aspect_ratio, target_width>>

\* lines 69-72: getbbox and, when it is not None, crop
CropToContent ==
    /\ pc = "crop"
    /\ bbox' = GetBBox(output_img)
    /\ output_img' = IF bbox' # NoBox THEN Crop(output_img, bbox') ELSE output_img
    /\ pc' = "size"
    /\ UNCHANGED <<exc, exit_code, existed, file, img, result, pixels_modified,
                   original_width, original_height, aspect_ratio, target_width>>

\* lines 76-80: the aspect ratio and the target width
ComputeTargetSize ==
    /\ pc = "size"
    /\ original_width' = output_img.size[1]
    /\ original_height' = output_img.size[2]
    /\ IF output_img.size[2] = 0
       THEN /\ exc' = "ZeroDivisionError"
            /\ pc' = "raised"
            /\ UNCHANGED <<aspect_ratio, target_width>>
       ELSE /\ aspect_ratio' = AspectRatio(output_img.size[1], output_img.size[2])
            /\ target_width' = IntOfProduct(target_height, aspect_ratio')
            /\ pc' = "resize"
            /\ exc' = exc
    /\ UNCHANGED <<exit_code, existed, file, img, result, pixels_modified,
                   bbox, output_img>>

\* line 86: Image.resize((target_width, target_height)); Pillow raises
\* ValueError("height and width must be > 0") for an empty size
Resize ==
    /\ pc = "resize"
    /\ IF target_width < 1 \/ target_height < 1
       THEN /\ exc' = "ValueError"
            /\ pc' = "raised"
            /\ output_img' = output_img
       ELSE /\ output_img' = [size |-> <<target_width, target_height>>, px |-> <<>>]
            /\ pc' = "sharpen"
            /\ exc' = exc
    /\ UNCHANGED <<exit_code, existed, file, img, result, pixels_modified,
                   bbox, original_width, original_height, aspect_ratio,
                   target_width>>

\* line 90: ImageFilter.SHARPEN, a filter that keeps the size
Sharpen ==
    /\ pc = "sharpen"
    /\ output_img' = [size |-> output_img.size, px |-> <<>>]
    /\ pc' = "save"
    /\ UNCHANGED <<exc, exit_code, existed, file, img, result, pixels_modified,
                   bbox, original_width, original_height, aspect_ratio,
                   target_width>>

\* line 93, first half: Image.save opens output_path for writing, which
\* truncates a file that is there and creates one that is not
SaveOpen ==
    /\ pc = "save"
    /\ \/ /\ file' = "partial"
          /\ pc' = "write"
          /\ exc' = exc
       \/ /\ exc' = "OSError"
          /\ pc' = "raised"
          /\ file' = file
    /\ UNCHANGED <<exit_code, existed, img, result, pixels_modified, bbox,
                   output_img, original_width, original_height, aspect_ratio,
                   target_width>>

\* line 93, second half: the PNG encoder writes into the open file.  When
\* the write fails Pillow removes a file it created itself and leaves a file
\* that was there before as the write left it; the old content is gone
SaveWrite ==
    /\ pc = "write"
    /\ \/ /\ file' = "final"
          /\ pc' = "returned"
          /\ exc' = exc
       \/ /\ exc' = "OSError"
          /\ pc' = "raised"
          /\ file' = IF existed THEN "partial" ELSE "absent"
    /\ UNCHANGED <<exit_code, existed, img, result, pixels_modified, bbox,
                   output_img, original_width, original_height, aspect_ratio,
                   target_width>>

\* lines 111-118: the call returned; main prints the summary and returns
MainSuccess ==
    /\ pc = "returned"
    /\ exit_code' = 0
    /\ pc' = "exited"
    /\ UNCHANGED <<exc, existed, file, img, result, pixels_modified, bbox,
                   output_img, original_width, original_height, aspect_ratio,
                   target_width>>

\* lines 119-121: except FileNotFoundError prints and falls off the end
MainFileNotFound ==
    /\ pc = "raised"
    /\ exc = "FileNotFoundError"
    /\ exit_code' = 0
    /\ pc' = "exited"
    /\ UNCHANGED <<exc, existed, file, img, result, pixels_modified, bbox,
                   output_img, original_width, original_height, aspect_ratio,
                   target_width>>

\* lines 122-125: except Exception prints the traceback and falls off the end
MainException ==
    /\ pc = "raised"
    /\ exc # "FileNotFoundError"
    /\ exit_code' = 0
    /\ pc' = "exited"
    /\ UNCHANGED <<exc, existed, file, img, result, pixels_modified, bbox,
                   output_img, original_width, original_height, aspect_ratio,
                   target_width>>

Next ==
    \/ Load
    \/ Composite
    \/ CropToContent
    \/ ComputeTargetSize
    \/ Resize
    \/ Sharpen
    \/ SaveOpen
    \/ SaveWrite
    \/ MainSuccess
    \/ MainFileNotFound
    \/ MainException

Spec == Init /\ [][Next]_vars

(* --------------- the classifier applied to a single pixel -------------- *)
\* a decoded 1 x 1 image whose channels range over Channels
InitPixel ==
    /\ pc = "composite"
    /\ existed = FALSE
    /\ file = "absent"
    /\ \E r \in Channels, g \in Channels, b \in Channels :
          img = [size |-> <<1, 1>>, px |-> [c \in Coords(1, 1) |-> <<r, g, b, 255>>]]
    /\ output_img = NoImage
    /\ Idle

NextPixel == Composite

SpecPixel == InitPixel /\ [][NextPixel]_vars

(* ------------- the resampler applied to any cropped buffer ------------- *)
\* the cropped buffer has any size within the bounds; its pixels play no
\* part in the size computation
InitSize ==
    /\ pc = "size"
    /\ existed = FALSE
    /\ file = "absent"
    /\ img = NoImage
    /\ \E cw \in 1..MaxCropW, ch \in 1..MaxCropH :
          output_img = [size |-> <<cw, ch>>, px |-> <<>>]
    /\ Idle

NextSize == ComputeTargetSize \/ Resize \/ Sharpen

SpecSize == InitSize /\ [][NextSize]_vars

(* ============================== properties ============================= *)
\* the target size has been computed from a buffer of positive height
Sized == original_height >= 1

\* squared channel spread: the population standard deviation of {r, g, b}
\* is below 15 exactly when this is below 9 * 225
Spread(p) ==
    (p[1] - p[2]) * (p[1] - p[2]) + (p[2] - p[3]) * (p[2] - p[3])
       + (p[1] - p[3]) * (p[1] - p[3])

\* luminance times 1000, with the coefficients of the specification
Lum1000(p) == 299 * p[1] + 587 * p[2] + 114 * p[3]

\* the composited buffer exists
Composited == result # NoImage

\* the file at output_path as it was before the run
Untouched == IF existed THEN "old" ELSE "absent"

\* C1 (as stated): once the target size is computed, target_width is the
\* nearest integer to 80 * cropped_width / cropped_height.
C1_RoundedWidth ==
    Sized => target_width = RoundHalfEven(80 * original_width, original_height)

\* C1 (amended): once the target size is computed, target_width is the
\* integer part of 80 * cropped_width / cropped_height:
\* target_width <= 80 * cw / ch < target_width + 1.
C1_TruncatedWidth ==
    Sized =>
       /\ target_width * original_height <= 80 * original_width
       /\ 80 * original_width < (target_width + 1) * original_height

\* a 1 x 3 buffer was resized to width 26, where the nearest integer to
\* 80 / 3 is 27
C1_Witness ==
    /\ pc = "sharpen"
    /\ original_width = 1
    /\ original_height = 3
    /\ target_width = 26
    /\ output_img.size = <<26, 80>>

\* C2: main() ends with exit code 0 exactly when remove_background_hd
\* raised nothing; every failure ends with a nonzero exit code.
C2_ExitCodeReportsFailure ==
    pc = "exited" => (exit_code = 0 <=> exc = None)

\* C3: with the default thresholds, a pixel of channel standard deviation
\* below 15 and luminance exactly 235 has alpha_factor 1 and output alpha 0;
\* one of luminance exactly 195 has alpha_factor 0 and output alpha 255.
C3_Boundary ==
    Composited =>
       \A c \in DOMAIN img.px :
          LET p == img.px[c] IN
          Spread(p) < 9 * 225 =>
             /\ Lum1000(p) = 235000 =>
                   /\ AlphaFactorNum(p[1], p[2], p[3]) = AlphaDen
                   /\ result.px[c][4] = 0
             /\ Lum1000(p) = 195000 =>
                   /\ AlphaFactorNum(p[1], p[2], p[3]) = 0
                   /\ result.px[c][4] = 255

\* the pixel (220, 244, 228), of luminance exactly 235, was composited to
\* alpha 0
C3_Witness ==
    /\ pc = "crop"
    /\ img.px[<<0, 0>>] = <<220, 244, 228, 255>>
    /\ result.px[<<0, 0>>][4] = 0

\* C4: a pixel of channel standard deviation >= 15 stays fully opaque
\* whatever its luminance, and an alpha below 255 needs both luminance >= 195
\* and standard deviation < 15.
C4_HighVarianceOpaque ==
    Composited =>
       \A c \in DOMAIN img.px :
          LET p == img.px[c] IN
          /\ Spread(p) >= 9 * 225 =>
                /\ AlphaFactorNum(p[1], p[2], p[3]) = 0
                /\ result.px[c][4] = 255
          /\ result.px[c][4] < 255 =>
                /\ Lum1000(p) >= 195000
                /\ Spread(p) < 9 * 225

\* the bright pixel (255, 255, 195), of luminance above 235 and standard
\* deviation above 15, was composited to alpha 255
C4_Witness ==
    /\ pc = "crop"
    /\ img.px[<<0, 0>>] = <<255, 255, 195, 255>>
    /\ Lum1000(img.px[<<0, 0>>]) > 235000
    /\ result.px[<<0, 0>>][4] = 255

\* C5: the composited buffer has the size of the source, every pixel keeps
\* the R, G and B of the source pixel at its coordinates, and its alpha is
\* 255 * (1 - alpha_factor) brought to 8 bits, alpha_factor being computed
\* from the source RGB alone.
C5_OnlyAlphaChanges ==
    Composited =>
       /\ result.size = img.size
       /\ DOMAIN result.px = DOMAIN img.px
       /\ \A c \in DOMAIN img.px :
             LET p == img.px[c]
                 q == result.px[c]
                 exact == 255 * (AlphaDen - AlphaFactorNum(p[1], p[2], p[3]))
             IN  /\ <<q[1], q[2], q[3]>> = <<p[1], p[2], p[3]>>
                 /\ q[4] \in 0..255
                 /\ q[4] * AlphaDen <= exact
                 /\ exact < (q[4] + 1) * AlphaDen

\* a source holding a white pixel and a half transparent gray pixel was
\* composited to a white of alpha 0 and a gray of alpha 102
C5_Witness ==
    /\ pc = "crop"
    /\ \E c, d \in DOMAIN img.px :
          /\ img.px[c] = <<255, 255, 255, 255>>
          /\ result.px[c] = <<255, 255, 255, 0>>
          /\ img.px[d] = <<219, 219, 219, 128>>
          /\ result.px[d] = <<219, 219, 219, 102>>

\* C6: when some pixel of the composited buffer has alpha > 0, the cropped
\* buffer is no larger than the composited one, is a window of it that
\* contains every pixel of alpha > 0, and has a pixel of alpha > 0 in its
\* top row, bottom row, left column and right column.
C6_TightCrop ==
    (pc = "size" /\ Composited /\ Content(result) # {}) =>
       LET w == output_img.size[1]
           h == output_img.size[2]
       IN  /\ bbox # NoBox
           /\ w >= 1 /\ w <= result.size[1]
           /\ h >= 1 /\ h <= result.size[2]
           /\ DOMAIN output_img.px = Coords(w, h)
           /\ \A c \in DOMAIN output_img.px :
                 output_img.px[c] = result.px[<<c[1] + bbox[2], c[2] + bbox[1]>>]
           /\ \A c \in Content(result) :
                 /\ bbox[1] <= c[2] /\ c[2] < bbox[1] + w
                 /\ bbox[2] <= c[1] /\ c[1] < bbox[2] + h
           /\ \E c \in Content(output_img) : c[1] = 0
           /\ \E c \in Content(output_img) : c[1] = h - 1
           /\ \E c \in Content(output_img) : c[2] = 0
           /\ \E c \in Content(output_img) : c[2] = w - 1

\* a 3 x 2 buffer whose only pixel of alpha > 0 is in the middle of the
\* bottom row was cropped to that pixel
C6_Witness ==
    /\ pc = "size"
    /\ result.size = <<3, 2>>
    /\ Content(result) = {<<1, 1>>}
    /\ bbox = <<1, 1, 2, 2>>
    /\ output_img.size = <<1, 1>>

\* C7: once the target size is computed, target_width differs from
\* 80 * cropped_width / cropped_height by less than 1.
C7_WithinOnePixel ==
    Sized =>
       /\ target_width * original_height - 80 * original_width < original_height
       /\ 80 * original_width - target_width * original_height < original_height

\* a 16 x 9 buffer was resized to 142 x 80
C7_Witness ==
    /\ pc = "sharpen"
    /\ original_width = 16
    /\ original_height = 9
    /\ target_width = 142
    /\ output_img.size = <<142, 80>>

\* C8: when every pixel of the composited buffer has alpha 0, getbbox gives
\* None, the crop step raises nothing and leaves the buffer as it is, and
\* the target size is computed from the dimensions of the source.
C8_EmptyContentPassThrough ==
    (Composited /\ Content(result) = {}) =>
       /\ pc = "size" =>
             /\ bbox = NoBox
             /\ output_img = result
             /\ output_img.size = img.size
             /\ exc = None
       /\ pc \in {"resize", "sharpen", "save", "write", "returned"} =>
             /\ bbox = NoBox
             /\ original_width = img.size[1]
             /\ original_height = img.size[2]
             /\ exc = None
       /\ pc = "raised" => exc \in {"ValueError", "OSError"}

\* an all-white 3 x 2 source was composited to alpha 0 everywhere and
\* reached the resize uncropped
C8_Witness ==
    /\ pc = "resize"
    /\ img.size = <<3, 2>>
    /\ \A c \in DOMAIN img.px : img.px[c] = <<255, 255, 255, 255>>
    /\ \A c \in DOMAIN result.px : result.px[c][4] = 0
    /\ original_width = 3
    /\ original_height = 2
    /\ target_width = 120

\* the order of the stages of a run
StageOrder ==
    {<<"open", "composite">>, <<"composite", "crop">>, <<"crop", "size">>,
     <<"size", "resize">>, <<"resize", "sharpen">>, <<"sharpen", "save">>,
     <<"save", "write">>, <<"write", "returned">>, <<"returned", "exited">>,
     <<"raised", "exited">>}

\* C9: the stages run in the order load, composite, crop, resample,
\* sharpen, write, the write being the last, and a run that fails at any
\* stage leaves the file at output_path untouched or complete.
C9_OrderedAndNoPartialFile ==
    [][/\ pc' # pc => (pc' = "raised" \/ <<pc, pc'>> \in StageOrder)
       /\ file' # file => pc \in {"save", "write"}
       /\ pc' = "raised" => file' \in {Untouched, "final"}]_vars

\* C10: once the target size is computed from a buffer of positive width
\* and height, target_width is at least 1 and the resize raises nothing.
C10_PositiveWidth ==
    (Sized /\ original_width >= 1) =>
       /\ target_width >= 1
       /\ exc # "ValueError"

====
